---- MODULE Spec2Model ----
(***************************************************************************)
(* GitFirmwareUpdate: manifest check, version comparison and the           *)
(* download-and-flash installer with its retry loop, modelled from         *)
(* src/src/GitFirmwareUpdate.cpp and src/src/GitFirmwareUpdate.h.          *)
(*                                                                         *)
(* Strings are sequences of one-character strings.  The HTTP client, the   *)
(* stream, the JSON parser and the flash writer (Update) are collaborators *)
(* outside the repository: every value they return is an input drawn from  *)
(* a small set, and the model keeps only what the code can observe of      *)
(* them (connection open, bytes left in the body, transaction open).       *)
(***************************************************************************)
EXTENDS Integers, Sequences, FiniteSets, TLC

\* ------------------------------------------------------------------ bounds

\* setRetryCount() is called with 0..MaxRetryCount
MaxRetryCount == 1
\* attempts of one invocation that are counted; the count stays there once
\* reached (only a wrapped counter gets there)
MaxAttemptsObserved == 258
\* checkForUpdate(), performUpdate() and downloadAndInstall() calls made from
\* the callbacks of one installer invocation, those of the installers they
\* start counted in
MaxNestedCalls == 1
\* failed Update.begin() calls after which a call of the same attempt can
\* still succeed
MaxBeginFailures == 1
\* a Content-Length beyond the byte count whose hundredfold leaves 32 bits
LargeSize == 43000000

\* ------------------------------------------------------- program constants

\* a begin loop that allows one call more
MaxBeginRetriesPlusOne == 5 + 1

\* const int MAX_BEGIN_RETRIES = 5
MAX_BEGIN_RETRIES == 5
\* const size_t BUF_SIZE = 1024
BUF_SIZE == 1024
\* HTTP_CODE_OK
HTTP_CODE_OK == 200
\* uint8_t retryAttempt / _retryCount: values 0..255, ++ wraps modulo 256
Uint8Mod == 256
\* INT_MAX of the 32-bit int: ma[i] - mb[i] wraps modulo 2^32 into [-2^31, 2^31)
IntMax == 2147483647
\* size_t on the ESP32 has 32 bits, kept here as two limbs of 16 bits:
\* totalRead * 100 wraps modulo SizeLimb * SizeLimb
SizeLimb == 65536

\* ---------------------------------------------------------------- strings

EmptyStr == << >>
HttpsPrefix == <<"h","t","t","p","s",":","/","/">>
HttpUrl == <<"h","t","t","p",":","/","/","x","/","f">>
HttpsUrl == <<"h","t","t","p","s",":","/","/","x","/","f">>

\* strncmp(s, prefix, n) == 0  /  String::startsWith
StartsWith(s, prefix) ==
  /\ Len(s) >= Len(prefix)
  /\ \A i \in 1..Len(prefix) : s[i] = prefix[i]

\* strchr / String::indexOf(ch) from position `from` (1-based); 0 when absent
RECURSIVE IndexFrom(_, _, _)
IndexFrom(s, ch, from) ==
  IF from > Len(s) THEN 0
  ELSE IF s[from] = ch THEN from
  ELSE IndexFrom(s, ch, from + 1)

IsDigit(c) == c \in {"0","1","2","3","4","5","6","7","8","9"}
\* isspace() in the "C" locale: blank, \t, \n, \v, \f, \r (the fourth string
\* below holds the vertical tab itself, which has no escape)
IsSpace(c) == c \in {" ", "\t", "\n", "", "\f", "\r"}

DigitVal(c) ==
  CASE c = "0" -> 0 [] c = "1" -> 1 [] c = "2" -> 2 [] c = "3" -> 3
    [] c = "4" -> 4 [] c = "5" -> 5 [] c = "6" -> 6 [] c = "7" -> 7
    [] c = "8" -> 8 [] c = "9" -> 9

RECURSIVE SkipSpaces(_, _)
SkipSpaces(s, i) ==
  IF i <= Len(s) /\ IsSpace(s[i]) THEN SkipSpaces(s, i + 1) ELSE i

\* The digits of atoi are accumulated as a magnitude of 64 bits, kept as four
\* limbs of 16 bits (lowest first), with `over` once it has left 64 bits.
NoDigits == [limbs |-> <<0, 0, 0, 0>>, over |-> FALSE]

\* acc * 10 + d
TimesTenPlus(acc, d) ==
  LET a1 == acc.limbs[1] * 10 + d
      a2 == acc.limbs[2] * 10 + a1 \div SizeLimb
      a3 == acc.limbs[3] * 10 + a2 \div SizeLimb
      a4 == acc.limbs[4] * 10 + a3 \div SizeLimb
  IN [ limbs |-> << a1 % SizeLimb, a2 % SizeLimb, a3 % SizeLimb, a4 % SizeLimb >>,
       over |-> acc.over \/ a4 >= SizeLimb ]

RECURSIVE AtoiDigits(_, _, _)
AtoiDigits(s, i, acc) ==
  IF i > Len(s) \/ ~IsDigit(s[i]) THEN acc
  ELSE AtoiDigits(s, i + 1, TimesTenPlus(acc, DigitVal(s[i])))

\* the int whose 32 bits are the limbs hi, lo
AsInt(hi, lo) ==
  IF hi >= SizeLimb \div 2 THEN (hi - SizeLimb) * SizeLimb + lo
  ELSE hi * SizeLimb + lo

\* the int whose 32 bits are those of minus the value of the limbs hi, lo
AsNegatedInt(hi, lo) ==
  IF lo = 0 THEN AsInt((SizeLimb - hi) % SizeLimb, 0)
  ELSE AsInt(SizeLimb - 1 - hi, SizeLimb - lo)

\* atoi(s + (from-1)): leading white space, an optional sign, then the digits.
\* Every value the call can return: the number when an int holds it;
\* otherwise the behaviour is undefined, and the libraries give the low 32
\* bits of the number (a conversion that wraps, or strtol with a long of 64
\* bits cut to int), INT_MAX or INT_MIN (strtol with a long of 32 bits, as on
\* the ESP32), or the low 32 bits of LONG_MAX or LONG_MIN, -1 or 0, when a
\* long of 64 bits does not hold it either
AtoiOutcomes(s, from) ==
  LET i == SkipSpaces(s, from)
      neg == i <= Len(s) /\ s[i] = "-"
      signed == i <= Len(s) /\ s[i] \in {"-", "+"}
      m == AtoiDigits(s, IF signed THEN i + 1 ELSE i, NoDigits)
      l == m.limbs
      half == SizeLimb \div 2
      fitsInt == /\ ~m.over /\ l[4] = 0 /\ l[3] = 0
                 /\ l[2] < half \/ (neg /\ l[2] = half /\ l[1] = 0)
      fitsLong == /\ ~m.over
                  /\ \/ l[4] < half
                     \/ neg /\ l[4] = half /\ l[3] = 0 /\ l[2] = 0 /\ l[1] = 0
      low == IF neg THEN AsNegatedInt(l[2], l[1]) ELSE AsInt(l[2], l[1])
  IN IF fitsInt THEN { low }
     ELSE { low, IF neg THEN 0 - IntMax - 1 ELSE IntMax }
          \cup (IF fitsLong THEN { } ELSE { IF neg THEN 0 ELSE 0 - 1 })

\* a - b on 32-bit ints, wrapping like the two's-complement hardware does.
\* No intermediate value leaves the int range.
SubInt(a, b) ==
  IF b < 0 /\ a > IntMax + b
    THEN (a - IntMax - 1) + ((0 - (b + 1)) - IntMax)        \* a - b - 2^32
  ELSE IF b > 0 /\ a < (0 - IntMax - 1) + b
    THEN (a + IntMax + 1) + ((IntMax - b) + 1)              \* a - b + 2^32
  ELSE a - b

\* static void parseVersion(const char* s, int v[3]): every triple it can
\* leave in v
parseVersionOutcomes(s) ==
  IF Len(s) = 0 THEN { <<0, 0, 0>> }
  ELSE LET p1 == IndexFrom(s, ".", 1)
           p2 == IF p1 = 0 THEN 0 ELSE IndexFrom(s, ".", p1 + 1)
       IN { << x, y, z >> :
              x \in AtoiOutcomes(s, 1),
              y \in IF p1 = 0 THEN { 0 } ELSE AtoiOutcomes(s, p1 + 1),
              z \in IF p2 = 0 THEN { 0 } ELSE AtoiOutcomes(s, p2 + 1) }

\* a - b leaves the range of int: the subtraction of line 241 is undefined
SubOverflows(a, b) ==
  \/ b < 0 /\ a > IntMax + b
  \/ b > 0 /\ a < (0 - IntMax - 1) + b

\* what ma[i] - mb[i] can yield: the difference when it fits; otherwise the
\* wrapped difference of the subtract instruction, or, where the compiler has
\* folded the caller's sign test into a comparison of the operands, a value
\* with the sign of the exact difference
SubIntOutcomes(a, b) ==
  IF SubOverflows(a, b)
    THEN { SubInt(a, b), IF a > b THEN IntMax ELSE 0 - IntMax }
    ELSE { a - b }

\* the for loop of cmpVersion with every outcome of the subtraction
RECURSIVE cmpTriplesOutcomes(_, _, _)
cmpTriplesOutcomes(ma, mb, i) ==
  IF i > 3 THEN { 0 }
  ELSE IF ma[i] # mb[i] THEN SubIntOutcomes(ma[i], mb[i])
  ELSE cmpTriplesOutcomes(ma, mb, i + 1)

\* int GitFirmwareUpdate::cmpVersion(const String& a, const String& b): every
\* value it can return
cmpVersionOutcomes(a, b) ==
  UNION { cmpTriplesOutcomes(ma, mb, 1) :
            ma \in parseVersionOutcomes(a), mb \in parseVersionOutcomes(b) }

\* ------------------------------------------------------------ error codes

NO_ERROR == "NO_ERROR"
NO_UPDATE_AVAILABLE == "NO_UPDATE_AVAILABLE"
NETWORK_ERROR == "NETWORK_ERROR"
HTTP_ERROR == "HTTP_ERROR"
JSON_PARSE_ERROR == "JSON_PARSE_ERROR"
INVALID_VERSION == "INVALID_VERSION"
DOWNLOAD_FAILED == "DOWNLOAD_FAILED"
FLASH_FAILED == "FLASH_FAILED"
INVALID_URL == "INVALID_URL"
UPDATE_SIZE_ERROR == "UPDATE_SIZE_ERROR"
UPDATE_ABORTED == "UPDATE_ABORTED"

UpdateError ==
  { NO_ERROR, NO_UPDATE_AVAILABLE, NETWORK_ERROR, HTTP_ERROR, JSON_PARSE_ERROR,
    INVALID_VERSION, DOWNLOAD_FAILED, FLASH_FAILED, INVALID_URL,
    UPDATE_SIZE_ERROR, UPDATE_ABORTED }

\* ------------------------------------------------------------------ inputs

V_0_9_9 == <<"0",".","9",".","9">>
V_1_0_0 == <<"1",".","0",".","0">>
V_1_0_1 == <<"1",".","0",".","1">>
V_1_1 == <<"1",".","1">>
V_2 == <<"2">>
Notes1 == <<"f","i","x">>

\* strings handed to cmpVersion on its own: well formed, short, long,
\* empty, without digits, with trailing letters, with a sign
V_1_2_3 == <<"1",".","2",".","3">>
V_1_2_4 == <<"1",".","2",".","4">>
V_1_9_9 == <<"1",".","9",".","9">>
V_2_0_0 == <<"2",".","0",".","0">>
V_0_0_0 == <<"0",".","0",".","0">>
V_1_2 == <<"1",".","2">>
V_1_2_3_4 == <<"1",".","2",".","3",".","4">>
V_abc == <<"a","b","c">>
V_1x_2 == <<"1","x",".","2">>
V_Negative == <<"-","2","1","4","7","4","8","3","6","4","7",".","0",".","0">>
V_TooLarge == <<"2","1","4","7","4","8","3","6","4","8",".","0",".","0">>
V_Tab == <<"\t","5",".","0">>

VersionStrings ==
  { EmptyStr, V_abc, V_0_0_0, V_1_2, V_1_2_3, V_1_2_4, V_1_2_3_4, V_1_9_9,
    V_2_0_0, V_1x_2, V_Negative, V_TooLarge, V_Tab }

\* a JSON member: << >> when the key is missing, <<value>> when present
Absent == << >>
Present(v) == << v >>

ManifestVersions ==
  { Absent, Present(EmptyStr), Present(V_0_9_9), Present(V_1_0_0),
    Present(V_1_0_1), Present(V_1_1), Present(V_2) }
ManifestFirmwareUrls == { Absent, Present(EmptyStr), Present(HttpUrl), Present(HttpsUrl) }
ManifestNotes == { Absent, Present(Notes1) }

NoDoc == [version |-> Absent, url |-> Absent, notes |-> Absent]

\* answers of the transport and of the JSON parser that stop a check early
FailingEnvs ==
  { [beginOk |-> FALSE, httpCode |-> HTTP_CODE_OK, parses |-> FALSE, doc |-> NoDoc],
    [beginOk |-> TRUE, httpCode |-> 404, parses |-> FALSE, doc |-> NoDoc],
    [beginOk |-> TRUE, httpCode |-> -1, parses |-> FALSE, doc |-> NoDoc],
    [beginOk |-> TRUE, httpCode |-> HTTP_CODE_OK, parses |-> FALSE, doc |-> NoDoc] }

ServedDoc(v, u, n) ==
  [ beginOk |-> TRUE, httpCode |-> HTTP_CODE_OK, parses |-> TRUE,
    doc |-> [version |-> v, url |-> u, notes |-> n] ]

\* what the transport and the JSON parser answer to one checkForUpdate():
\* every combination of the manifest members above
CheckEnvs ==
  FailingEnvs \cup
  { ServedDoc(v, u, n) :
      v \in ManifestVersions, u \in ManifestFirmwareUrls, n \in ManifestNotes }

\* the answers used where the installer is followed to its end: a check that
\* fails, a manifest that is not newer, and one that is
FewCheckEnvs ==
  { [beginOk |-> TRUE, httpCode |-> 404, parses |-> FALSE, doc |-> NoDoc],
    ServedDoc(Present(V_1_0_0), Present(HttpUrl), Absent),
    ServedDoc(Present(V_1_0_1), Present(HttpUrl), Present(Notes1)) }

\* the answers to a checkForUpdate() made from a callback of the installer
NestedCheckEnvs ==
  { [beginOk |-> TRUE, httpCode |-> 404, parses |-> FALSE, doc |-> NoDoc],
    ServedDoc(Present(V_1_0_1), Present(HttpsUrl), Present(Notes1)) }

\* urls handed to downloadAndInstall()
InstallUrls == { EmptyStr, HttpUrl, HttpsUrl }
\* urls handed to a downloadAndInstall() made from a callback of the installer
NestedInstallUrls == { EmptyStr, HttpUrl }

RetryCounts == 0..MaxRetryCount

\* ------------------------------------------------------------------- state

VARIABLES
  \* constructor arguments and build configuration
  currentVersion,    \* _currentVersion
  githubUrl,         \* _githubUrl
  httpOnly,          \* GIT_FIRMWARE_HTTP_ONLY of this build
  \* session
  remoteVersion,     \* _remoteVersion
  releaseNotes,      \* _releaseNotes
  firmwareUrl,       \* _firmwareUrl
  lastError,         \* _lastError
  lastErrorDetail,   \* _lastErrorDetail ("" when empty)
  retryCount,        \* _retryCount
  abortFlag,         \* _abortFlag
  isUpdating,        \* _isUpdating
  currentBytesRead,  \* _currentBytesRead
  totalBytes,        \* _totalBytes
  currentPercent,    \* _currentPercent
  \* frame of performHttpFirmwareUpdate
  pc,                \* position of the installer; "idle" when it does not run
  chk,               \* the operation whose check waits for the transport, or "none"
  chkOpen,           \* the HTTPClient of a check holds a connection
  url,               \* the url argument
  retryAttempt,      \* uint8_t retryAttempt
  success,           \* bool success
  contentLength,     \* int contentLength
  hasContentLength,  \* bool hasContentLength
  updateStarted,     \* bool updateStarted
  beginRetries,      \* int beginRetries
  totalRead,         \* size_t totalRead
  \* collaborators, as far as the code can observe them
  stack,             \* the frames of the installers that wait in a callback for an
                     \*   operation called from it, the innermost first
  httpOpen,          \* an HTTPClient of an installer attempt holds a connection
  connAlive,         \* the server has not closed the connection of the running attempt
  streamLeft,        \* body bytes the server still delivers to the running attempt
  updOpen,           \* a flash-write transaction is open (Update.isRunning())
  \* history kept for the properties
  ret,               \* the last public operation and what it returned
  hist,              \* what happened in the current (or last) installer invocation
  cmpResult          \* the last cmpVersion(a, b) made on its own, with cmpVersion(b, a)
                     \*   and the triples ta, tb parsed from a and b

constVars == << currentVersion, githubUrl, httpOnly >>
manifestVars == << remoteVersion, releaseNotes, firmwareUrl >>
errorVars == << lastError, lastErrorDetail >>
progressVars == << currentBytesRead, totalBytes, currentPercent >>
frameVars == << url, retryAttempt, success, contentLength, hasContentLength,
                updateStarted, beginRetries, totalRead >>
envVars == << httpOpen, connAlive, streamLeft, updOpen >>

vars == << currentVersion, githubUrl, httpOnly, remoteVersion, releaseNotes,
           firmwareUrl, lastError, lastErrorDetail, retryCount, abortFlag,
           isUpdating, currentBytesRead, totalBytes, currentPercent, pc, url,
           retryAttempt, success, contentLength, hasContentLength,
           updateStarted, beginRetries, totalRead, httpOpen, connAlive,
           streamLeft, updOpen, ret, hist, cmpResult, chk, chkOpen, stack >>

NoEnv == [beginOk |-> FALSE, httpCode |-> 0, parses |-> FALSE, doc |-> NoDoc]

\* no check has ended yet
NoOut ==
  [ val |-> FALSE, lastError |-> "NO_ERROR", detail |-> "", steps |-> << >>,
    opened |-> 0, released |-> 0,
    remoteVersion |-> << >>, firmwareUrl |-> << >>, releaseNotes |-> << >> ]

\* no operation has returned yet
NoRet ==
  [ op |-> "none",        \* "checkForUpdate", "performUpdate", "downloadAndInstall":
                          \*   returned without entering the installer;
                          \* "installer": performHttpFirmwareUpdate returned;
                          \* "checking": a check has begun and not ended
    val |-> FALSE,        \* the value returned
    steps |-> << >>,      \* the steps the check went through
    opened |-> 0,         \* connections the check opened
    released |-> 0,       \* connections the check released
    env |-> NoEnv,        \* the answers the check got
    out |-> NoOut,        \* what the check left behind
    again |-> FALSE,      \* checkForUpdate() right after a checkForUpdate() that
                          \*   got the same answers
    aborted |-> FALSE ]   \* _abortFlag when the installer ended

\* history of one installer invocation
NoHist ==
  [ caller |-> "none",       \* the public operation that called the installer
    retries |-> 0,           \* the largest _retryCount in force during the invocation
    attempts |-> 0,          \* attempts started (bodies of the retry loop entered)
    beginCalls |-> 0,        \* Update.begin() calls in the current attempt
    aborts |-> 0,            \* Update.abort() calls in the current attempt
    shortWrite |-> FALSE,    \* an Update.write() accepted fewer bytes than given
    endOk |-> FALSE,         \* Update.end() returned true in the current attempt
    finished |-> FALSE,      \* Update.isFinished() returned true in the current attempt
    misuse |-> FALSE,        \* begin on an open transaction, write or end on none
    leak |-> FALSE,          \* an attempt started with a transaction still open
    connLeak |-> FALSE,      \* an attempt started with a connection still open
    abortInCopy |-> FALSE,   \* abortUpdate() set the flag while the copy loop ran,
                             \*   and no check has begun since
    chunksAfterAbort |-> 0,  \* chunks read and written with _abortFlag already set
    wentBack |-> FALSE,      \* a chunk left fewer bytes or a lower percent in the
                             \*   progress snapshot than the snapshot had before
    readError |-> FALSE,     \* readBytes() returned 0 or less in the current attempt
    firstReport |-> << >>,   \* what the progress callback got from the call of
                             \*   line 396 in the current attempt, << >> before it
    staleAbort |-> FALSE,    \* _abortFlag was set when the public operation was called
                             \*   (kept up to the first report of the first attempt)
    abortRequested |-> FALSE,  \* abortUpdate() was called while the installer ran,
                               \*   and no check has begun since
    nestedChecks |-> 0,      \* checkForUpdate() calls made from the callbacks
    nestedInstalls |-> 0 ]   \* performUpdate() and downloadAndInstall() calls made from
                             \*   the callbacks; an installer started by one of them
                             \*   begins with the count that includes its own call

\* cmpVersion has not been called on its own
NoCmp == [called |-> FALSE, a |-> EmptyStr, b |-> EmptyStr,
          ta |-> <<0, 0, 0>>, tb |-> <<0, 0, 0>>, ab |-> 0, ba |-> 0]

InitSession ==
  /\ remoteVersion = EmptyStr
  /\ releaseNotes = EmptyStr
  /\ firmwareUrl = EmptyStr
  /\ lastError = NO_ERROR
  /\ lastErrorDetail = ""
  /\ retryCount = 0
  /\ abortFlag = FALSE
  /\ isUpdating = FALSE
  /\ currentBytesRead = 0
  /\ totalBytes = 0
  /\ currentPercent = 0
  /\ pc = "idle"
  /\ chk = "none"
  /\ chkOpen = FALSE
  /\ stack = << >>
  /\ url = EmptyStr
  /\ retryAttempt = 0
  /\ success = FALSE
  /\ contentLength = 0
  /\ hasContentLength = FALSE
  /\ updateStarted = FALSE
  /\ beginRetries = 0
  /\ totalRead = 0
  /\ httpOpen = FALSE
  /\ connAlive = FALSE
  /\ streamLeft = 0
  /\ updOpen = FALSE
  /\ ret = NoRet
  /\ hist = NoHist
  /\ cmpResult = NoCmp

\* GitFirmwareUpdate("1.0.0", "http://x/f") in either build
Init ==
  /\ currentVersion = V_1_0_0
  /\ githubUrl = HttpUrl
  /\ httpOnly \in BOOLEAN
  /\ InitSession

\* ----------------------------------------------------------------- checker

\* doc["key"] | ""
JsonString(doc, key) == IF Len(doc[key]) = 0 THEN EmptyStr ELSE doc[key][1]

\* #if GIT_FIRMWARE_HTTP_ONLY ... strncmp(_githubUrl, "https://", 8) == 0
SchemeRejected(u, only) == only /\ StartsWith(u, HttpsPrefix)

\* a check that forgets the url
ManifestFieldsMissingVersionOnly(version, furl) == Len(version) = 0

\* _remoteVersion.length() == 0 || _firmwareUrl.length() == 0
ManifestFieldsMissing(version, furl) == Len(version) = 0 \/ Len(furl) = 0

\* _remoteVersion.indexOf('.') == -1
VersionFormatBad(version) == IndexFrom(version, ".", 1) = 0

\* a check with the comparison the wrong way round
NotNewerInverted(cmp) == cmp >= 0

\* a check that lets an equal version through
NotNewerStrict(cmp) == cmp < 0

\* cmp <= 0
NotNewer(cmp) == cmp <= 0

\* the members a check writes, as they are
Session ==
  [ lastError |-> lastError, detail |-> lastErrorDetail,
    remoteVersion |-> remoteVersion, firmwareUrl |-> firmwareUrl,
    releaseNotes |-> releaseNotes ]

\* a check that clears what the last call left only when that call left an
\* error
ResetSessionAfterError(s) ==
  IF s.lastError = NO_ERROR THEN s
  ELSE [ lastError |-> NO_ERROR, detail |-> "", remoteVersion |-> EmptyStr,
         firmwareUrl |-> EmptyStr, releaseNotes |-> EmptyStr ]

\* lines 31-32, 34-36: _lastError = NO_ERROR; _lastErrorDetail[0] = '\0';
\* _remoteVersion = ""; _releaseNotes = ""; _firmwareUrl = "";
ResetSession(s) ==
  [ lastError |-> NO_ERROR, detail |-> "", remoteVersion |-> EmptyStr,
    firmwareUrl |-> EmptyStr, releaseNotes |-> EmptyStr ]

\* setError(err, detail) on the members s
WithError(s, err, detail) == [ s EXCEPT !.lastError = err, !.detail = detail ]

\* lines 113-115: _remoteVersion = doc["version"] | ""; _firmwareUrl =
\* doc["url"] | ""; _releaseNotes = doc["notes"] | "";
WithManifest(s, doc) ==
  [ s EXCEPT !.remoteVersion = JsonString(doc, "version"),
             !.firmwareUrl = JsonString(doc, "url"),
             !.releaseNotes = JsonString(doc, "notes") ]

\* the check returns `val` after the steps `steps`, the members being s
CheckReturn(val, steps, s) ==
  [ val |-> val, steps |-> steps, lastError |-> s.lastError, detail |-> s.detail,
    remoteVersion |-> s.remoteVersion, firmwareUrl |-> s.firmwareUrl,
    releaseNotes |-> s.releaseNotes ]

\* bool GitFirmwareUpdate::checkForUpdate() from line 38 on: what the call
\* returns and what it leaves in the members, which are s when line 38 is
\* reached, given the transport's and the parser's answers.  Every path writes
\* what the code writes on it and nothing else: the paths that fail before
\* line 113 leave the three strings, the path that returns true leaves
\* _lastError and the detail, and line 145 leaves the detail.
CheckOutcomes(env, gurl, cur, only, s) ==
  LET m == WithManifest(s, env.doc)
      first == IF only THEN <<"scheme">> ELSE << >>
  IN
  IF SchemeRejected(gurl, only)
    THEN { CheckReturn(FALSE, first,
             WithError(s, INVALID_URL, "HTTPS not supported in HTTP-only build")) }
  ELSE IF ~env.beginOk
    THEN { CheckReturn(FALSE, first \o <<"open">>,
             WithError(s, NETWORK_ERROR, "Failed to begin HTTP connection")) }
  ELSE IF env.httpCode # HTTP_CODE_OK
    THEN { CheckReturn(FALSE, first \o <<"open", "get">>,
             WithError(s, HTTP_ERROR, "HTTP request failed")) }
  ELSE IF ~env.parses
    THEN { CheckReturn(FALSE, first \o <<"open", "get", "parse">>,
             WithError(s, JSON_PARSE_ERROR, "Failed to parse JSON")) }
  ELSE IF ManifestFieldsMissing(m.remoteVersion, m.firmwareUrl)
    THEN { CheckReturn(FALSE, first \o <<"open", "get", "parse", "fields">>,
             WithError(m, INVALID_VERSION,
                       "Invalid latest.json: missing version or URL")) }
  ELSE IF VersionFormatBad(m.remoteVersion)
    THEN { CheckReturn(FALSE, first \o <<"open", "get", "parse", "fields", "format">>,
             WithError(m, INVALID_VERSION, "Invalid version format")) }
  ELSE
    { IF NotNewer(cmp)
        THEN CheckReturn(FALSE,
               first \o <<"open", "get", "parse", "fields", "format", "compare">>,
               [ m EXCEPT !.lastError = NO_UPDATE_AVAILABLE ])
        ELSE CheckReturn(TRUE,
               first \o <<"open", "get", "parse", "fields", "format", "compare">>,
               m)
      : cmp \in cmpVersionOutcomes(m.remoteVersion, cur) }

\* an end() that leaves the client with the connection it holds
HttpClientEndForgotten(held) == held

\* HTTPClient::end() on a client that holds a connection or none (`held`):
\* it holds none afterwards
HttpClientEnd(held) == FALSE

\* what the caller of operation `op` has in hand when its check has returned
\* r on the answers env, having opened `opened` connections and released
\* `released`
CheckRet(op, r, env, opened, released) ==
  [ NoRet EXCEPT !.op = op, !.val = r.val, !.steps = r.steps,
                 !.opened = opened, !.released = released, !.env = env,
                 !.out = [ val |-> r.val, lastError |-> r.lastError,
                           detail |-> r.detail, steps |-> r.steps,
                           opened |-> opened, released |-> released,
                           remoteVersion |-> r.remoteVersion,
                           firmwareUrl |-> r.firmwareUrl,
                           releaseNotes |-> r.releaseNotes ] ]

\* --------------------------------------------------------------- installer

\* a successful GET: << http.getSize(), bytes the server delivers before it
\* closes the connection >>; getSize() is -1 without a Content-Length header
Responses ==
  { << -1, 0 >>, << -1, 2048 >>, << 0, 1024 >>,
    << 2048, 2048 >>, << 2048, 1024 >>, << 1500, 2048 >> }
\* stream->available() while data is pending: what has arrived so far
Arrivals == { 0, 512, 2048 }
\* http.GET()
HttpCodes == { HTTP_CODE_OK, 404, -1 }

\* An installer called from a callback of another one is followed with fewer
\* answers of its collaborators: its connection opens, its GET is refused or
\* answered with a body of one chunk, and that chunk is flashed and finalized
\* without a failure; setRetryCount() calls made while it runs leave the count
\* as it is.
Answers(all, nested) == IF stack = << >> THEN all ELSE nested
\* http.begin()
HttpBeginAnswers == Answers(BOOLEAN, { TRUE })
\* http.GET()
GetAnswers == Answers(HttpCodes, { HTTP_CODE_OK, 404 })
\* http.getSize() and the body
GetResponses == Answers(Responses, { << BUF_SIZE, BUF_SIZE >> })
\* Update.end() and Update.isFinished()
EndAnswers == Answers(BOOLEAN, { TRUE })

Min(a, b) == IF a < b THEN a ELSE b

\* constrain(x, lo, hi)
constrain(x, lo, hi) == IF x < lo THEN lo ELSE IF x > hi THEN hi ELSE x

\* (bytes * 100) as a size_t, i.e. modulo 2^32, as << high limb, low limb >>
TimesHundred(bytes) ==
  LET lo == (bytes % SizeLimb) * 100
      hi == (bytes \div SizeLimb) * 100 + lo \div SizeLimb
  IN << hi % SizeLimb, lo % SizeLimb >>

\* p * total as << high, low limb >> for 0 <= p <= 100 (the high part is not reduced)
TimesSmall(p, total) ==
  LET lo == (total % SizeLimb) * p
  IN << (total \div SizeLimb) * p + lo \div SizeLimb, lo % SizeLimb >>

LimbsLeq(x, y) == x[1] < y[1] \/ (x[1] = y[1] /\ x[2] <= y[2])

\* percent = (int)((bytes * 100) / total); percent = constrain(percent, 0, 100)
\* with bytes * 100 computed in size_t.  Below SizeLimb bytes the product does
\* not wrap and is divided as it is; above, the result is the largest p in 0..100 with
\* p * total <= (bytes * 100) mod 2^32, and 0 when the quotient, cast to int,
\* is negative (only total = 1 can make it 2^31 or more)
PercentOf(bytes, total) ==
  LET v == TimesHundred(bytes) IN
    IF bytes < SizeLimb THEN constrain((bytes * 100) \div total, 0, 100)
    ELSE IF total = 1 /\ v[1] >= SizeLimb \div 2 THEN 0
    ELSE CHOOSE p \in 0..100 :
           /\ LimbsLeq(TimesSmall(p, total), v)
           /\ p = 100 \/ ~LimbsLeq(TimesSmall(p + 1, total), v)

\* a report that passes no total on
reportProgressNoTotal(bytesRead, total) == << 0, bytesRead, 0 >>

\* reportProgress(bytesRead, totalBytes): the << percent, bytesRead, totalBytes >>
\* handed to the progress callback
reportProgress(bytesRead, total) ==
  << IF total > 0 THEN PercentOf(bytesRead, total) ELSE 0, bytesRead, total >>

\* while (retryAttempt <= _retryCount && !success && !_abortFlag)
LoopCondition(attempt, count, ok, flag) == attempt <= count /\ ~ok /\ ~flag

\* retryAttempt++ on a uint8_t
NextRetryAttempt(attempt) == (attempt + 1) % Uint8Mod

\* a copy loop that does not poll the abort flag
CopyLoopConditionNoAbort(connected, flag) == connected

\* while (http.connected() && !_abortFlag)
CopyLoopCondition(connected, flag) == connected /\ ~flag

\* a write check that sees only a write of nothing
ShortWriteZeroOnly(written, c) == written = 0

\* Update.write(buff, c) != (size_t)c
ShortWrite(written, c) == written # c

\* a size check that sees only a body that is too short
DownloadIncompleteShortOnly(has, total, len) == has /\ total < len

\* hasContentLength && totalRead != (size_t)contentLength
DownloadIncomplete(has, total, len) == has /\ total # len

\* hasContentLength && totalRead >= (size_t)contentLength
DownloadComplete(has, total, len) == has /\ total >= len

SetError(e, m) == lastError' = e /\ lastErrorDetail' = m

\* an error path that forgets Update.abort()
UpdateAbortForgotten == UNCHANGED updOpen

\* Update.abort(): the open transaction is discarded
UpdateAbort == updOpen' = FALSE

\* http.end() in the installer: the connection of the running attempt is
\* released and its stream is gone; the HTTPClient of an attempt that waits in
\* a callback keeps the connection it has
HttpEnd ==
  /\ httpOpen' = (HttpClientEnd(httpOpen) \/ stack # << >>)
  /\ connAlive' = FALSE
  /\ streamLeft' = 0

\* a cleanup that clears the flag and leaves the counters
ClearProgressFlagOnly == isUpdating' = FALSE /\ UNCHANGED progressVars

\* _isUpdating = false; _currentBytesRead = 0; _totalBytes = 0; _currentPercent = 0
ClearProgress ==
  /\ isUpdating' = FALSE
  /\ currentBytesRead' = 0
  /\ totalBytes' = 0
  /\ currentPercent' = 0

\* `aborted`: abortUpdate() was called after the reset of line 261
InstallerRet(v) == [NoRet EXCEPT !.op = "installer", !.val = v, !.aborted = abortFlag]

\* the frame of performHttpFirmwareUpdate is gone once it has returned
DropFrame ==
  /\ url' = EmptyStr
  /\ retryAttempt' = 0
  /\ success' = FALSE
  /\ contentLength' = 0
  /\ hasContentLength' = FALSE
  /\ updateStarted' = FALSE
  /\ beginRetries' = 0
  /\ totalRead' = 0

\* the history once the installer has returned false: what is recorded about
\* the last attempt's begin loop, reads and first report, and about the flag
\* at the call, goes with the frame
Returned(h) == [h EXCEPT !.beginCalls = 0, !.readError = FALSE,
                         !.firstReport = << >>, !.staleAbort = FALSE]

\* performUpdate() passes _firmwareUrl to the installer by reference (line
\* 158): while that installer runs, its `url` is _firmwareUrl
UrlAliased == pc # "idle" /\ hist.caller = "performUpdate"

\* the frame of the running installer and the stream of its attempt, as they
\* are while an operation called from one of its callbacks runs
Suspended ==
  [ pc |-> pc, url |-> url, aliased |-> UrlAliased, hist |-> hist,
    retryAttempt |-> retryAttempt, success |-> success,
    contentLength |-> contentLength, hasContentLength |-> hasContentLength,
    updateStarted |-> updateStarted, beginRetries |-> beginRetries,
    totalRead |-> totalRead, connAlive |-> connAlive, streamLeft |-> streamLeft ]

\* the url argument of the suspended frame f, _firmwareUrl being `furl`
OuterUrl(f, furl) == IF f.aliased THEN furl ELSE f.url

\* the stream of the suspended attempt f when its callback goes on after a
\* nested installer: as it was, or closed by the server in the meantime
StreamsAfter(f) == { << f.connAlive, f.streamLeft >>, << FALSE, 0 >> }

\* the history of the suspended invocation f when the operation called from
\* its callback has returned with history h: what f did itself is as it was;
\* what was done to the flash transaction, the connections and the flag is
\* what the operation left, its Update.abort() calls counted in
Resumed(f, h) ==
  [ h EXCEPT !.caller = f.hist.caller,
             !.retries = IF f.hist.retries > @ THEN f.hist.retries ELSE @,
             !.attempts = f.hist.attempts, !.beginCalls = f.hist.beginCalls,
             !.aborts = f.hist.aborts + @,
             !.shortWrite = f.hist.shortWrite, !.endOk = f.hist.endOk,
             !.finished = f.hist.finished, !.wentBack = f.hist.wentBack,
             !.readError = f.hist.readError,
             !.firstReport = f.hist.firstReport,
             !.staleAbort = f.hist.staleAbort ]

\* the operation called from a callback has returned: the frame under it is
\* the running one again; h is the history of the operation that returned
Resume(h) ==
  LET f == Head(stack) IN
  /\ stack' = Tail(stack)
  /\ pc' = f.pc
  /\ url' = OuterUrl(f, firmwareUrl)
  /\ retryAttempt' = f.retryAttempt
  /\ success' = f.success
  /\ contentLength' = f.contentLength
  /\ hasContentLength' = f.hasContentLength
  /\ updateStarted' = f.updateStarted
  /\ beginRetries' = f.beginRetries
  /\ totalRead' = f.totalRead
  /\ httpOpen' = TRUE
  /\ \E s \in StreamsAfter(f) : connAlive' = s[1] /\ streamLeft' = s[2]
  /\ hist' = Resumed(f, h)

\* return false out of performHttpFirmwareUpdate, the history of the
\* invocation being h: to the application, or to the callback that made the
\* call; `ended`: http.end() is called on the way out
ReturnFalse(h, ended) ==
  /\ ret' = InstallerRet(FALSE)
  /\ IF stack = << >> THEN
       /\ pc' = "idle"
       /\ DropFrame
       /\ hist' = Returned(h)
       /\ IF ended THEN HttpEnd ELSE UNCHANGED << httpOpen, connAlive, streamLeft >>
       /\ UNCHANGED stack
     ELSE Resume(Returned(h))

\* retryAttempt++; continue;
Continue(h) ==
  /\ retryAttempt' = NextRetryAttempt(retryAttempt)
  /\ pc' = "loop_guard"
  /\ hist' = h

\* an installer entry that leaves the flag as it finds it
ResetAbortFlagForgotten == UNCHANGED abortFlag

\* _abortFlag = false;
ResetAbortFlag == abortFlag' = FALSE

\* the history of an installer invocation at its entry: empty for one called
\* by the application; one called from a callback goes on counting the calls
\* made from callbacks, which h holds
Entered(h, below) ==
  IF below = << >> THEN NoHist
  ELSE [NoHist EXCEPT !.nestedChecks = h.nestedChecks,
                      !.nestedInstalls = h.nestedInstalls]

\* performHttpFirmwareUpdate(u), lines 246-268: the checks on the url and the
\* resets made before the retry loop; `flag` is _abortFlag at the call,
\* `caller` the public operation and `env` the answers its check got, `below`
\* the suspended frames under this invocation, h the history at the call and
\* `furl` _firmwareUrl
EnterInstaller(u, flag, caller, env, below, h, furl) ==
  LET begun == [Entered(h, below) EXCEPT !.retries = retryCount, !.caller = caller,
                                         !.staleAbort = abortFlag]
      \* return false before the frame has any state of its own
      Refused == /\ abortFlag' = flag
                 /\ ret' = [InstallerRet(FALSE) EXCEPT !.aborted = FALSE]
                 /\ UNCHANGED << retryAttempt, success >>
                 /\ IF below = << >>
                      THEN /\ pc' = "idle"
                           /\ hist' = begun
                           /\ UNCHANGED << url, stack >>
                      ELSE /\ pc' = Head(below).pc
                           /\ hist' = h
                           /\ url' = OuterUrl(Head(below), furl)
                           /\ stack' = Tail(below)
  IN
  IF Len(u) = 0 THEN
    /\ SetError(INVALID_URL, "URL is empty")
    /\ Refused
    /\ UNCHANGED isUpdating
  ELSE IF httpOnly /\ StartsWith(u, HttpsPrefix) THEN
    /\ SetError(INVALID_URL, "HTTPS not supported in HTTP-only build")
    /\ isUpdating' = FALSE
    /\ Refused
  ELSE
    /\ url' = u
    /\ isUpdating' = TRUE
    /\ ResetAbortFlag
    /\ SetError(NO_ERROR, "")
    /\ retryAttempt' = 0
    /\ success' = FALSE
    /\ pc' = "loop_guard"
    /\ ret' = [NoRet EXCEPT !.env = env]
    /\ hist' = begun
    /\ stack' = below

\* the positions at which the installer has called out to the application:
\* the progress callback of the first report (line 396), the progress and the
\* server-handle callback of a chunk (lines 446-450), the progress callback of
\* the final report (line 470)
CallbackPcs == { "first_report", "chunk_report", "final_report" }

\* checkForUpdate(), performUpdate() and downloadAndInstall() are called while
\* no check waits: by the application when no installer runs, or from a
\* callback of the running installer
CanCall ==
  /\ chk = "none"
  /\ \/ pc = "idle"
     \/ /\ pc \in CallbackPcs
        /\ hist.nestedChecks + hist.nestedInstalls < MaxNestedCalls

\* what the call of operation `op` does to the history of the installer from
\* whose callback it is made
CheckBegun(h, op) ==
  IF pc = "idle" THEN h
  ELSE [h EXCEPT !.nestedChecks = IF op = "checkForUpdate" THEN @ + 1 ELSE @,
                 !.nestedInstalls = IF op = "performUpdate" THEN @ + 1 ELSE @,
                 !.abortRequested = FALSE,
                 !.abortInCopy = FALSE, !.chunksAfterAbort = 0]

\* performUpdate() called from a callback: the frame of the installer that
\* made the callback waits under it
Nested(op) == op = "performUpdate" /\ pc # "idle"

\* the end of the check of operation `op` with outcome `r`, the flag being
\* `flag`, the history h and the suspended frames `below`, the check having
\* opened `opened` connections and released `released`: the members are as
\* the check leaves them, and performUpdate() goes on into the installer when
\* the check has returned true (lines 154-158)
CheckDone(op, r, env, flag, again, h, below, opened, released) ==
  /\ chk' = "none"
  /\ remoteVersion' = r.remoteVersion
  /\ firmwareUrl' = r.firmwareUrl
  /\ releaseNotes' = r.releaseNotes
  /\ IF op = "performUpdate" /\ r.val
       THEN EnterInstaller(r.firmwareUrl, flag, "performUpdate", env, below, h,
                           r.firmwareUrl)
       ELSE /\ SetError(r.lastError, r.detail)
            /\ abortFlag' = flag
            /\ IF Nested(op)
                 THEN /\ url' = OuterUrl(Head(below), r.firmwareUrl)
                      /\ stack' = Tail(below)
                 ELSE /\ url' = IF UrlAliased THEN r.firmwareUrl ELSE url
                      /\ stack' = below
            /\ ret' = [ CheckRet(op, r, env, opened, released) EXCEPT !.again = again ]
            /\ hist' = h
            /\ UNCHANGED << isUpdating, pc, retryAttempt, success >>

\* checkForUpdate() lines 31-76, for operation `op`: the resets, the scheme
\* check and http.begin(); where these succeed the HTTPClient of the check
\* holds a connection and the check is left waiting for the answer to its GET
CheckStart(op, envs) ==
  /\ CanCall
  /\ \E env \in envs :
       LET below == IF Nested(op) THEN << Suspended >> \o stack ELSE stack IN
       IF SchemeRejected(githubUrl, httpOnly) \/ ~env.beginOk THEN
         /\ UNCHANGED chkOpen
         /\ \E r \in CheckOutcomes(env, githubUrl, currentVersion, httpOnly,
                                   ResetSession(Session)) :
              CheckDone(op, r, env, FALSE,
                        ret.op = "checkForUpdate" /\ op = "checkForUpdate"
                          /\ ret.env = env,
                        CheckBegun(hist, op), below, 0, 0)
       ELSE
         /\ chk' = op
         /\ chkOpen' = TRUE
         /\ LET s == ResetSession(Session) IN
              /\ SetError(s.lastError, s.detail)
              /\ remoteVersion' = s.remoteVersion
              /\ releaseNotes' = s.releaseNotes
              /\ firmwareUrl' = s.firmwareUrl
         /\ ResetAbortFlag
         /\ url' = IF UrlAliased \/ Nested(op) THEN EmptyStr ELSE url
         /\ stack' = below
         /\ ret' = [ NoRet EXCEPT !.op = "checking", !.env = ret.env,
                                  !.out = ret.out, !.opened = 1,
                                  !.again = (ret.op = "checkForUpdate"
                                             /\ op = "checkForUpdate") ]
         /\ hist' = CheckBegun(hist, op)
         /\ UNCHANGED << isUpdating, pc, retryAttempt, success >>
  /\ UNCHANGED << cmpResult, constVars, retryCount, progressVars, contentLength,
                  hasContentLength, updateStarted, beginRetries, totalRead, envVars >>

\* checkForUpdate() lines 78-150: the answer to the GET has come and the rest
\* of the check runs on the members as they are; http.end() is called on the
\* way, at line 86 when the status is not 200 and at line 103 otherwise;
\* performUpdate() then enters the installer (line 158)
CheckFinish(envs) ==
  /\ chk # "none"
  /\ chkOpen' = HttpClientEnd(chkOpen)
  /\ \E env \in { e \in envs : e.beginOk } :
       \E r \in CheckOutcomes(env, githubUrl, currentVersion, httpOnly, Session) :
         CheckDone(chk, r, env, abortFlag, ret.again /\ ret.env = env, hist, stack,
                   ret.opened,
                   ret.released + (IF chkOpen /\ ~chkOpen' THEN 1 ELSE 0))
  /\ UNCHANGED << cmpResult, constVars, retryCount, progressVars, contentLength,
                  hasContentLength, updateStarted, beginRetries, totalRead, envVars >>

\* bool GitFirmwareUpdate::downloadAndInstall(const String& url)
DownloadAndInstall ==
  /\ CanCall
  /\ \E u \in (IF pc = "idle" THEN InstallUrls ELSE NestedInstallUrls) :
       LET h == IF pc = "idle" THEN hist
                ELSE [hist EXCEPT !.nestedInstalls = @ + 1]
       IN
       IF Len(u) = 0 THEN
         /\ SetError(INVALID_URL, "URL is empty")
         /\ ret' = [NoRet EXCEPT !.op = "downloadAndInstall"]
         /\ hist' = h
         /\ UNCHANGED << abortFlag, isUpdating, pc, url, retryAttempt, success, stack >>
       ELSE EnterInstaller(u, abortFlag, "downloadAndInstall", NoEnv,
                           IF pc = "idle" THEN stack ELSE << Suspended >> \o stack,
                           h, firmwareUrl)
  /\ UNCHANGED << cmpResult, constVars, manifestVars, retryCount, progressVars, contentLength,
                  hasContentLength, updateStarted, beginRetries, totalRead, envVars,
                  chk, chkOpen >>

\* void GitFirmwareUpdate::setRetryCount(uint8_t count), count out of `counts`:
\* from the application, a callback or another task
SetRetryCountIn(counts) ==
  /\ pc # "restarted"
  /\ \E count \in counts :
       /\ retryCount' = count
       /\ hist' = IF pc # "idle" /\ count > hist.retries
                  THEN [hist EXCEPT !.retries = count] ELSE hist
  /\ UNCHANGED << cmpResult, constVars, manifestVars, errorVars, abortFlag, isUpdating,
                  progressVars, pc, frameVars, envVars, ret, chk, chkOpen, stack >>

\* void abortUpdate() { _abortFlag = true; }  -- from a callback or another task
AbortUpdate ==
  /\ pc # "restarted"
  /\ abortFlag' = TRUE
  /\ hist' = [hist EXCEPT
                !.abortInCopy = @ \/ (~abortFlag /\ pc \in {"copy_guard", "copy_chunk",
                                                            "chunk_report"}),
                !.abortRequested = @ \/ pc # "idle"]
  /\ UNCHANGED << cmpResult, constVars, manifestVars, errorVars, retryCount, isUpdating,
                  progressVars, pc, frameVars, envVars, ret, chk, chkOpen, stack >>

\* the frame and the history at the start of one attempt (the loop body's
\* locals are declared anew in every iteration)
StartAttempt ==
  /\ contentLength' = 0
  /\ hasContentLength' = FALSE
  /\ updateStarted' = FALSE
  /\ beginRetries' = 0
  /\ totalRead' = 0
  /\ hist' = [hist EXCEPT !.attempts = IF @ < MaxAttemptsObserved THEN @ + 1 ELSE @,
                          !.beginCalls = 0, !.aborts = 0,
                          !.endOk = FALSE, !.finished = FALSE,
                          !.chunksAfterAbort = 0, !.readError = FALSE,
                          !.firstReport = << >>,
                          !.staleAbort = @ /\ hist.attempts = 0,
                          !.leak = @ \/ updOpen, !.connLeak = @ \/ httpOpen]

\* lines 270 and 527-542: the guard of the retry loop, and what follows the loop
LoopGuard ==
  /\ pc = "loop_guard"
  /\ IF LoopCondition(retryAttempt, retryCount, success, abortFlag) THEN
       /\ StartAttempt
       /\ pc' = "http_begin"
       /\ UNCHANGED << isUpdating, progressVars, ret >>
       /\ UNCHANGED << url, retryAttempt, success >>
       /\ UNCHANGED << httpOpen, connAlive, streamLeft, stack >>
     ELSE IF ~success THEN
       /\ ClearProgress
       /\ ReturnFalse(hist, FALSE)
     ELSE
       /\ pc' = "restarted"
       /\ ret' = InstallerRet(TRUE)
       /\ UNCHANGED << isUpdating, progressVars, frameVars, hist >>
       /\ UNCHANGED << httpOpen, connAlive, streamLeft, stack >>
  /\ UNCHANGED << cmpResult, constVars, manifestVars, errorVars, retryCount, abortFlag,
                  updOpen >>
  /\ UNCHANGED << chk, chkOpen >>

\* lines 280-312: http.begin()
HttpBegin ==
  /\ pc = "http_begin"
  /\ IF httpOnly /\ StartsWith(url, HttpsPrefix) THEN
       /\ SetError(INVALID_URL, "HTTPS not supported in HTTP-only build")
       /\ Continue(hist)
       /\ UNCHANGED httpOpen
     ELSE \E beginOk \in HttpBeginAnswers :
       IF ~beginOk THEN
         /\ SetError(NETWORK_ERROR, "Failed to begin HTTP connection")
         /\ Continue(hist)
         /\ UNCHANGED httpOpen
       ELSE
         /\ httpOpen' = TRUE
         /\ pc' = "http_get"
         /\ UNCHANGED hist
         /\ UNCHANGED << errorVars, retryAttempt >>
  /\ UNCHANGED << cmpResult, constVars, manifestVars, retryCount, abortFlag, isUpdating,
                  progressVars, url, success, contentLength, hasContentLength,
                  updateStarted, beginRetries, totalRead, connAlive, streamLeft,
                  updOpen, ret >>
  /\ UNCHANGED << chk, chkOpen, stack >>

\* lines 315-355: http.GET(), the status check, http.getSize() and the reset of
\* the progress counters
HttpGet ==
  /\ pc = "http_get"
  /\ \E httpCode \in GetAnswers :
       IF httpCode # HTTP_CODE_OK THEN
         /\ SetError(HTTP_ERROR, "HTTP request failed")
         /\ HttpEnd
         /\ IF updOpen THEN UpdateAbort ELSE UNCHANGED updOpen
         /\ Continue([hist EXCEPT !.aborts = IF updOpen THEN @ + 1 ELSE @])
         /\ UNCHANGED << progressVars, contentLength, hasContentLength >>
       ELSE \E response \in GetResponses :
         /\ contentLength' = response[1]
         /\ hasContentLength' = (response[1] > 0)
         /\ totalBytes' = IF response[1] > 0 THEN response[1] ELSE 0
         /\ currentBytesRead' = 0
         /\ currentPercent' = 0
         /\ streamLeft' = response[2]
         /\ connAlive' = TRUE
         /\ pc' = "update_begin"
         /\ UNCHANGED << errorVars, retryAttempt, httpOpen, updOpen, hist >>
  /\ UNCHANGED << cmpResult, constVars, manifestVars, retryCount, abortFlag, isUpdating, url,
                  success, updateStarted, beginRetries, totalRead, ret >>
  /\ UNCHANGED << chk, chkOpen, stack >>

\* Update.begin(): it succeeds or fails; after more than MaxBeginFailures
\* failures in the attempt it keeps failing
BeginAnswers ==
  Answers(IF beginRetries <= MaxBeginFailures THEN BOOLEAN ELSE { FALSE }, { TRUE })

\* lines 360-396: one Update.begin() call of the begin loop, then either the
\* next call, the give-up after MAX_BEGIN_RETRIES, or the first progress report
UpdateBegin ==
  /\ pc = "update_begin"
  /\ \E ok \in BeginAnswers :
       LET h == [hist EXCEPT !.beginCalls = @ + 1, !.misuse = @ \/ updOpen]
       IN
       IF ok THEN
         /\ updateStarted' = TRUE
         /\ updOpen' = TRUE
         /\ totalRead' = 0
         /\ hist' = [h EXCEPT !.firstReport =
                       reportProgress(0, IF hasContentLength THEN contentLength ELSE 0)]
         /\ pc' = "first_report"
         /\ UNCHANGED << errorVars, retryAttempt, beginRetries, httpOpen,
                         connAlive, streamLeft >>
       ELSE IF beginRetries + 1 < MAX_BEGIN_RETRIES THEN
         /\ beginRetries' = beginRetries + 1
         /\ hist' = h
         /\ UNCHANGED << errorVars, retryAttempt, updateStarted, totalRead, pc,
                         httpOpen, connAlive, streamLeft, updOpen >>
       ELSE
         /\ beginRetries' = beginRetries + 1
         /\ SetError(UPDATE_SIZE_ERROR, "Update.begin() failed after retries")
         /\ HttpEnd
         /\ Continue(h)
         /\ UNCHANGED << updateStarted, totalRead, updOpen >>
  /\ UNCHANGED << cmpResult, constVars, manifestVars, retryCount, abortFlag, isUpdating,
                  progressVars, url, success, contentLength, hasContentLength,
                  ret >>
  /\ UNCHANGED << chk, chkOpen, stack >>

\* http.connected(): true while body bytes are pending, otherwise whether the
\* server has closed by now (once closed it stays closed)
ConnectedAnswers == IF streamLeft > 0 THEN { TRUE }
                    ELSE IF connAlive THEN { TRUE, FALSE } ELSE { FALSE }

\* line 398: while (http.connected() && !_abortFlag)
CopyGuard ==
  /\ pc = "copy_guard"
  /\ \E connected \in ConnectedAnswers :
       /\ connAlive' = connected
       /\ pc' = IF CopyLoopCondition(connected, abortFlag)
                THEN "copy_chunk" ELSE "post_loop"
  /\ UNCHANGED << cmpResult, constVars, manifestVars, errorVars, retryCount, abortFlag,
                  isUpdating, progressVars, frameVars, httpOpen, streamLeft,
                  updOpen, ret, hist >>
  /\ UNCHANGED << chk, chkOpen, stack >>

\* stream->available(): what has arrived of the pending bytes
AvailableAnswers == { Min(a, streamLeft) : a \in Answers(Arrivals, { BUF_SIZE }) }

\* stream->readBytes(buff, toRead): all of it, or nothing on a read error
ReadAnswers(toRead) == Answers({ 0, toRead }, { toRead })

\* Update.write(buff, c): all of it, or fewer bytes
WriteAnswers(c) == Answers({ c, c - 1, 0 }, { c })

\* lines 400-446: one pass of the copy loop body, up to its progress report
CopyChunk ==
  /\ pc = "copy_chunk"
  /\ \E avail \in AvailableAnswers :
       IF avail = 0 THEN
         \* nothing available: leave when the connection is gone, else poll again
         \E connected \in ConnectedAnswers :
           /\ connAlive' = connected
           /\ pc' = IF connected THEN "copy_guard" ELSE "post_loop"
           /\ UNCHANGED << errorVars, isUpdating, progressVars, frameVars,
                           httpOpen, streamLeft, updOpen, ret, hist, stack >>
       ELSE \E c \in ReadAnswers(Min(avail, BUF_SIZE)) :
         IF c <= 0 THEN
           /\ pc' = "post_loop"
           /\ hist' = [hist EXCEPT !.readError = TRUE]
           /\ UNCHANGED << errorVars, isUpdating, progressVars, frameVars,
                           envVars, ret, stack >>
         ELSE \E written \in WriteAnswers(c) :
           LET h == [hist EXCEPT !.misuse = @ \/ ~updOpen,
                                 !.shortWrite = @ \/ written < c,
                                 !.chunksAfterAbort = IF abortFlag THEN @ + 1 ELSE @]
           IN
           IF ShortWrite(written, c) THEN
             /\ SetError(FLASH_FAILED, "Update.write() failed")
             /\ UpdateAbort
             /\ ClearProgress
             /\ ReturnFalse([h EXCEPT !.aborts = @ + 1], TRUE)
           ELSE
             LET total == totalRead + c IN
             /\ totalRead' = total
             /\ streamLeft' = streamLeft - c
             /\ currentBytesRead' = total
             /\ currentPercent' = IF hasContentLength
                                  THEN PercentOf(total, contentLength)
                                  ELSE currentPercent
             /\ hist' = [h EXCEPT !.wentBack =
                           \/ @
                           \/ total < currentBytesRead
                           \/ currentPercent' < currentPercent]
             /\ pc' = "chunk_report"
             /\ UNCHANGED << errorVars, isUpdating, totalBytes, httpOpen,
                             connAlive, updOpen, ret, url, retryAttempt, success,
                             contentLength, hasContentLength, updateStarted,
                             beginRetries, stack >>
  /\ UNCHANGED << cmpResult, constVars, manifestVars, retryCount, abortFlag >>
  /\ UNCHANGED << chk, chkOpen >>

\* lines 465-470: force 100 % and make the final progress report
PostLoop ==
  /\ pc = "post_loop"
  /\ currentPercent' = 100
  /\ currentBytesRead' = totalRead
  /\ pc' = "final_report"
  /\ UNCHANGED << cmpResult, constVars, manifestVars, errorVars, retryCount, abortFlag,
                  isUpdating, totalBytes, frameVars, envVars, ret, hist >>
  /\ UNCHANGED << chk, chkOpen, stack >>

\* the callbacks have returned: after the first report the copy loop begins
\* (line 398), after a chunk's report comes the test for completeness (lines
\* 452-462), after the final report the test of the flag (line 472)
CallbackReturn ==
  /\ pc \in CallbackPcs
  /\ chk = "none"
  /\ pc' = IF pc = "first_report" THEN "copy_guard"
           ELSE IF pc = "final_report" THEN "abort_check"
           ELSE IF DownloadComplete(hasContentLength, totalRead, contentLength)
             THEN "post_loop"
           ELSE "copy_guard"
  /\ hist' = [hist EXCEPT !.staleAbort = FALSE]
  /\ UNCHANGED << cmpResult, constVars, manifestVars, errorVars, retryCount, abortFlag,
                  isUpdating, progressVars, frameVars, envVars, ret, chk, chkOpen, stack >>

\* lines 472-482: if (_abortFlag) ...
AbortCheck ==
  /\ pc = "abort_check"
  /\ IF abortFlag THEN
       /\ SetError(UPDATE_ABORTED, "Update aborted by user")
       /\ UpdateAbort
       /\ ClearProgress
       /\ ReturnFalse([hist EXCEPT !.aborts = @ + 1], TRUE)
     ELSE
       /\ pc' = "finalize"
       /\ UNCHANGED << errorVars, isUpdating, progressVars, frameVars, envVars,
                       ret, hist, stack >>
  /\ UNCHANGED << cmpResult, constVars, manifestVars, retryCount, abortFlag >>
  /\ UNCHANGED << chk, chkOpen >>

\* lines 484-525: the size check, Update.end(), Update.isFinished()
Finalize ==
  /\ pc = "finalize"
  /\ HttpEnd
  /\ IF DownloadIncomplete(hasContentLength, totalRead, contentLength) THEN
       /\ SetError(DOWNLOAD_FAILED, "Incomplete download")
       /\ UpdateAbort
       /\ ClearProgress
       /\ Continue([hist EXCEPT !.aborts = @ + 1])
       /\ UNCHANGED success
     ELSE \E endOk \in EndAnswers, finished \in EndAnswers :
       LET h == [hist EXCEPT !.misuse = @ \/ ~updOpen, !.endOk = endOk,
                             !.finished = endOk /\ finished]
       IN
       IF ~endOk THEN
         \* whatever Update.end() left open, the Update.abort() that follows closes
         /\ SetError(FLASH_FAILED, "Update.end() failed")
         /\ UpdateAbort
         /\ ClearProgress
         /\ Continue([h EXCEPT !.aborts = @ + 1])
         /\ UNCHANGED success
       ELSE IF ~finished THEN
         /\ SetError(FLASH_FAILED, "Update not finished")
         /\ updOpen' = FALSE
         /\ Continue(h)
         /\ UNCHANGED << success, isUpdating, progressVars >>
       ELSE
         /\ success' = TRUE
         /\ updOpen' = FALSE
         /\ pc' = "loop_guard"
         /\ hist' = h
         /\ UNCHANGED << errorVars, retryAttempt, isUpdating, progressVars >>
  /\ UNCHANGED << cmpResult, constVars, manifestVars, retryCount, abortFlag, url,
                  contentLength, hasContentLength, updateStarted, beginRetries,
                  totalRead, ret >>
  /\ UNCHANGED << chk, chkOpen, stack >>

\* ------------------------------------------------------------ specification

\* the operations with the checks answered out of the few manifests
CheckForUpdate == CheckStart("checkForUpdate", FewCheckEnvs)
PerformUpdate == CheckStart("performUpdate", FewCheckEnvs)
CheckAnswered == CheckFinish(IF pc = "idle" THEN FewCheckEnvs ELSE NestedCheckEnvs)
SetRetryCount == SetRetryCountIn(Answers(RetryCounts, { retryCount }))

InstallerStep ==
  \/ LoopGuard
  \/ HttpBegin
  \/ HttpGet
  \/ UpdateBegin
  \/ CopyGuard
  \/ CopyChunk
  \/ CallbackReturn
  \/ PostLoop
  \/ AbortCheck
  \/ Finalize

Next ==
  \/ CheckForUpdate
  \/ PerformUpdate
  \/ CheckAnswered
  \/ DownloadAndInstall
  \/ SetRetryCount
  \/ AbortUpdate
  \/ InstallerStep

Spec == Init /\ [][Next]_vars

\* The checker alone, against every manifest of CheckEnvs, for both manifest
\* urls and two current versions.
InitChecker ==
  /\ currentVersion \in { V_1_0_0, V_1_0_1 }
  /\ githubUrl \in { HttpUrl, HttpsUrl }
  /\ httpOnly \in BOOLEAN
  /\ InitSession

CheckForUpdateAny == CheckStart("checkForUpdate", CheckEnvs)
CheckAnsweredAny == CheckFinish(CheckEnvs)

NextChecker ==
  \/ CheckForUpdateAny
  \/ CheckAnsweredAny
  \/ AbortUpdate

SpecChecker == InitChecker /\ [][NextChecker]_vars

\* The retry loop with the largest count setRetryCount() accepts, followed
\* through the attempts that fail before the download starts.
SetRetryCountMax == SetRetryCountIn({ Uint8Mod - 1 })

NextRetry ==
  \/ SetRetryCountMax
  \/ DownloadAndInstall
  \/ LoopGuard
  \/ HttpBegin
  \/ HttpGet

SpecRetry == Init /\ [][NextRetry]_vars

\* The retry loop when no GET is answered with a success status, every call
\* of the running installer returning: a step of the installer that can be
\* taken is taken.
HttpGetRefused == HttpGet /\ pc' = "loop_guard"

FailingAttemptStep == LoopGuard \/ HttpBegin \/ HttpGetRefused

NextRetryFair ==
  \/ SetRetryCountMax
  \/ DownloadAndInstall
  \/ FailingAttemptStep

SpecRetryFair == Init /\ [][NextRetryFair]_vars /\ WF_vars(FailingAttemptStep)

\* The copy loop of one known-size attempt, entered after the chunks already
\* copied: none or one for a small body, 41920 full chunks for a large one.
ProgressSizes == { 2 * BUF_SIZE, LargeSize }

\* full chunks whose hundredfold byte count is still below 2^32
ChunksBeforeWrap == (SizeLimb \div 100) * (SizeLimb \div BUF_SIZE)

ChunksCopied(size) ==
  IF ChunksBeforeWrap * BUF_SIZE < size THEN { ChunksBeforeWrap } ELSE { 0, 1 }

InitProgress ==
  /\ currentVersion = V_1_0_0
  /\ githubUrl = HttpUrl
  /\ httpOnly \in BOOLEAN
  /\ remoteVersion = EmptyStr
  /\ releaseNotes = EmptyStr
  /\ firmwareUrl = EmptyStr
  /\ lastError = NO_ERROR
  /\ lastErrorDetail = ""
  /\ retryCount = 0
  /\ abortFlag = FALSE
  /\ isUpdating = TRUE
  /\ \E size \in ProgressSizes : \E k \in ChunksCopied(size) :
       /\ contentLength = size
       /\ totalBytes = size
       /\ totalRead = k * BUF_SIZE
       /\ currentBytesRead = k * BUF_SIZE
       /\ currentPercent = IF k = 0 THEN 0 ELSE PercentOf(k * BUF_SIZE, size)
       /\ streamLeft = size - k * BUF_SIZE
  /\ pc = "copy_guard"
  /\ chk = "none"
  /\ chkOpen = FALSE
  /\ stack = << >>
  /\ url = HttpUrl
  /\ retryAttempt = 0
  /\ success = FALSE
  /\ hasContentLength = TRUE
  /\ updateStarted = TRUE
  /\ beginRetries = 0
  /\ httpOpen = TRUE
  /\ connAlive = TRUE
  /\ updOpen = TRUE
  /\ ret = NoRet
  /\ hist = [NoHist EXCEPT !.caller = "downloadAndInstall", !.attempts = 1,
                           !.beginCalls = 1,
                           !.firstReport = reportProgress(0, contentLength)]
  /\ cmpResult = NoCmp

NextProgress ==
  \/ CopyGuard
  \/ CopyChunk
  \/ CallbackReturn
  \/ PostLoop

SpecProgress == InitProgress /\ [][NextProgress]_vars

\* The comparator alone, on every pair of VersionStrings.
CompareVersions ==
  /\ \E a \in VersionStrings, b \in VersionStrings :
       \E ma \in parseVersionOutcomes(a), mb \in parseVersionOutcomes(b) :
         \E ab \in cmpTriplesOutcomes(ma, mb, 1), ba \in cmpTriplesOutcomes(mb, ma, 1) :
           cmpResult' = [called |-> TRUE, a |-> a, b |-> b, ta |-> ma, tb |-> mb,
                         ab |-> ab, ba |-> ba]
  /\ UNCHANGED << constVars, manifestVars, errorVars, retryCount, abortFlag,
                  isUpdating, progressVars, pc, frameVars, envVars, ret, hist, chk, chkOpen,
                  stack >>

NextCmp == CompareVersions

SpecCmp == Init /\ [][NextCmp]_vars

\* ------------------------------------------------------------- properties

\* performHttpFirmwareUpdate has returned false to its caller
InstallerReturnedFalse == pc = "idle" /\ ret.op = "installer" /\ ~ret.val

\* the installer was called by the application, and no performUpdate() or
\* downloadAndInstall() has been called from the callbacks of the invocation
Plain == stack = << >> /\ hist.nestedInstalls = 0

\* as Plain, and no checkForUpdate() has been called from the callbacks either
Undisturbed == Plain /\ hist.nestedChecks = 0

\* the progress snapshot is all zero
ProgressZero == currentBytesRead = 0 /\ totalBytes = 0 /\ currentPercent = 0

\* C1: the installer requests a restart only at the end of an attempt in which
\* Update.begin succeeded, every write was a full write, the size was unknown
\* or the bytes read equalled it, Update.end() succeeded and
\* Update.isFinished() was true; in every other outcome it returns false and
\* requests no restart.
Inv_C1_RestartOnlyAfterCompleteAttempt ==
  /\ pc = "restarted" =>
       /\ hist.attempts >= 1
       /\ updateStarted
       /\ ~hist.shortWrite
       /\ (~hasContentLength \/ totalRead = contentLength)
       /\ hist.endOk
       /\ hist.finished
  /\ ret.op = "installer" => (ret.val <=> pc = "restarted")
  /\ pc = "idle" => ~ret.val \/ ret.op = "checkForUpdate"

\* a restart after a known-size body was read to its last byte
Witness_C1 ==
  /\ pc = "restarted"
  /\ hasContentLength
  /\ totalRead = contentLength
  /\ ret.val

\* C2: per attempt the flash transaction is begun, written and then ended or
\* aborted: begin is never called on an open transaction, write and end never
\* without one, and none is open when the installer has returned, when the
\* retry loop starts the next attempt, or when the restart is requested.
\* Stated of an installer invocation that runs as the only one (Plain).
Inv_C2_TransactionLifecycle ==
  Plain =>
    /\ ~hist.misuse
    /\ ~hist.leak
    /\ pc \in {"idle", "restarted", "loop_guard", "http_begin", "http_get",
               "update_begin"} => ~updOpen
    /\ hist.aborts <= 1
    /\ hist.endOk => hist.aborts = 0

\* a second attempt holds an open transaction after the first one's was aborted
Witness_C2 ==
  /\ Plain
  /\ updOpen
  /\ retryAttempt = 1
  /\ hist.attempts = 2
  /\ lastError = DOWNLOAD_FAILED

\* C3 (as claimed): for every retry count 0..255 one invocation starts at most
\* retryCount + 1 attempts, exactly retryCount + 1 when every attempt fails
\* with a retryable error and no abort is requested, and none after a
\* successful one.
Inv_C3_AttemptsBounded ==
  /\ pc # "idle" => hist.attempts <= hist.retries + 1
  /\ ( /\ InstallerReturnedFalse
       /\ ~ret.aborted
       /\ ~hist.shortWrite
       /\ hist.attempts > 0 ) => hist.attempts = hist.retries + 1
  /\ success => pc \in {"loop_guard", "restarted"}

\* C4: a flash write that accepts fewer bytes than handed in ends the
\* invocation at once: the transaction is aborted exactly once, the connection
\* released, false returned with FLASH_FAILED, isUpdating false and the
\* progress zero, and nothing further is opened or begun.  Stated of an
\* installer invocation that runs as the only one (Plain).
Inv_C4_ShortWriteTerminal ==
  (Plain /\ hist.shortWrite) =>
    /\ pc = "idle"
    /\ hist.aborts = 1
    /\ ~updOpen
    /\ ~httpOpen
    /\ ~isUpdating
    /\ ProgressZero
    /\ ret.op = "installer" => (~ret.val /\ lastError = FLASH_FAILED)

\* a short write on the first attempt while a retry was still left
Witness_C4 ==
  /\ Plain
  /\ hist.shortWrite
  /\ InstallerReturnedFalse
  /\ hist.retries > 0
  /\ hist.attempts = 1
  /\ lastError = FLASH_FAILED

\* what an abort during the copy loop leads to, but for the error recorded,
\* in an installer invocation that runs as the only one
AbortInCopyTerminal ==
  (Plain /\ hist.abortInCopy) =>
    /\ hist.chunksAfterAbort <= 1
    /\ pc \in {"copy_guard", "copy_chunk", "chunk_report", "post_loop",
               "final_report", "abort_check", "idle"}
    /\ pc = "idle" =>
         /\ hist.aborts = 1
         /\ ~updOpen
         /\ ~httpOpen
         /\ ~isUpdating
         /\ ProgressZero
         /\ ret.op = "installer" => ~ret.val

\* C5 (as claimed, of an installer invocation that runs as the only one):
\* when the abort flag is set while the copy loop runs, at
\* most one further chunk is read and written, then the transaction is
\* aborted, the connection released and false returned with UPDATE_ABORTED,
\* isUpdating false and the progress zero, and no further attempt starts.
Inv_C5_AbortInCopyLoop_Claimed ==
  /\ AbortInCopyTerminal
  /\ (Plain /\ hist.abortInCopy /\ InstallerReturnedFalse) =>
       lastError = UPDATE_ABORTED

\* C5 (amended): as claimed for an abort request that no checkForUpdate()
\* called from a callback has cleared since (hist.abortInCopy), except that the
\* error is FLASH_FAILED when the one further chunk's flash write is short,
\* and UPDATE_ABORTED otherwise.
Inv_C5_AbortInCopyLoop ==
  /\ AbortInCopyTerminal
  /\ (Plain /\ hist.abortInCopy /\ InstallerReturnedFalse) =>
       lastError = IF hist.shortWrite THEN FLASH_FAILED ELSE UPDATE_ABORTED

\* an abort in the copy loop of a first attempt, one more chunk copied, the
\* invocation ended with UPDATE_ABORTED although a retry was left
Witness_C5 ==
  /\ Plain
  /\ hist.abortInCopy
  /\ hist.chunksAfterAbort = 1
  /\ InstallerReturnedFalse
  /\ lastError = UPDATE_ABORTED
  /\ hist.retries > 0
  /\ hist.attempts = 1

\* C6 (as claimed): an abortUpdate() made at any point after the invocation
\* began never ends in a restart request: the invocation returns false with
\* UPDATE_ABORTED.  Stated of an installer invocation that runs as the only
\* one (Plain).
Inv_C6_AbortAlwaysTerminal ==
  (Plain /\ ret.op = "installer" /\ ret.aborted) =>
    /\ pc = "idle"
    /\ ~ret.val
    /\ lastError = UPDATE_ABORTED

\* C7 (as claimed): whenever the installer returns false, lastError is not
\* NO_ERROR, the progress is all zero and isUpdating is false.  Stated of an
\* installer invocation that runs as the only one (Plain).
Inv_C7_FalseReturnLeavesError ==
  (Plain /\ InstallerReturnedFalse) =>
    /\ lastError # NO_ERROR
    /\ ProgressZero
    /\ ~isUpdating

\* C8 (as claimed): isUpdating is true when the restart is requested,
\* whichever attempt was the successful one.  Stated of an installer
\* invocation that runs as the only one (Plain).
Inv_C8_UpdatingAtRestart == (Plain /\ pc = "restarted") => isUpdating

\* the manifest's version has a '.'
HasDot(s) == \E i \in 1..Len(s) : s[i] = "."

\* triple a is after triple b in the lexicographic order
LexGreater(a, b) ==
  \/ a[1] > b[1]
  \/ a[1] = b[1] /\ a[2] > b[2]
  \/ a[1] = b[1] /\ a[2] = b[2] /\ a[3] > b[3]

\* the value of a manifest member, "" when it is missing
Member(m) == IF m = Absent THEN EmptyStr ELSE m[1]

\* the three numbers of a version string none of whose components leaves int
Numbers(s) == CHOOSE t \in parseVersionOutcomes(s) : TRUE

\* the answers the last check got, step by step
SchemeAllowed == ~(httpOnly /\ StartsWith(githubUrl, HttpsPrefix))
Opened == ret.env.beginOk
StatusOk == ret.env.httpCode = 200
Parsed == ret.env.parses
FieldsPresent == Member(ret.env.doc.version) # EmptyStr /\ Member(ret.env.doc.url) # EmptyStr
FormatOk == HasDot(Member(ret.env.doc.version))
Newer == LexGreater(Numbers(Member(ret.env.doc.version)), Numbers(currentVersion))

\* C9: checkForUpdate() returns true exactly when the manifest was fetched
\* with a success status, parsed, has a non-empty version and url, the
\* version has a '.' and is strictly greater than currentVersion; and then
\* lastError is NO_ERROR and the three getters hold the manifest's values,
\* the notes empty when missing.
Inv_C9_CheckTrueIff ==
  ret.op = "checkForUpdate" =>
    /\ ret.val <=> ( /\ SchemeAllowed /\ Opened /\ StatusOk /\ Parsed
                     /\ FieldsPresent /\ FormatOk /\ Newer )
    /\ ret.val =>
         /\ lastError = NO_ERROR
         /\ remoteVersion = Member(ret.env.doc.version)
         /\ firmwareUrl = Member(ret.env.doc.url)
         /\ releaseNotes = Member(ret.env.doc.notes)

\* a check that found 1.1 newer than the current version, in a manifest
\* without notes
Witness_C9 ==
  /\ ret.op = "checkForUpdate"
  /\ ret.val
  /\ remoteVersion = V_1_1
  /\ releaseNotes = EmptyStr
  /\ ret.env.doc.notes = Absent

\* the steps of a check in their order; the scheme is looked at only in the
\* HTTP-only build
StepOrder ==
  (IF httpOnly THEN <<"scheme">> ELSE << >>)
    \o <<"open", "get", "parse", "fields", "format", "compare">>

\* the first step that fails for the answers the last check got, and its error
FirstFailure ==
  IF ~SchemeAllowed THEN <<"scheme", INVALID_URL>>
  ELSE IF ~Opened THEN <<"open", NETWORK_ERROR>>
  ELSE IF ~StatusOk THEN <<"get", HTTP_ERROR>>
  ELSE IF ~Parsed THEN <<"parse", JSON_PARSE_ERROR>>
  ELSE IF ~FieldsPresent THEN <<"fields", INVALID_VERSION>>
  ELSE IF ~FormatOk THEN <<"format", INVALID_VERSION>>
  ELSE <<"compare", NO_UPDATE_AVAILABLE>>

\* C10: when checkForUpdate() returns false, lastError is the error of the
\* first failing step in the order scheme, open, fetch status, parse, empty
\* version or url, version without '.', version not newer; and no step after
\* the failing one has run.
Inv_C10_FirstFailingStep ==
  (ret.op = "checkForUpdate" /\ ~ret.val) =>
    /\ lastError = FirstFailure[2]
    /\ Len(ret.steps) >= 1
    /\ ret.steps = SubSeq(StepOrder, 1, Len(ret.steps))
    /\ ret.steps[Len(ret.steps)] = FirstFailure[1]

\* a manifest without url, its version without '.': the check stopped at the
\* fields with INVALID_VERSION and never looked at the format
Witness_C10 ==
  /\ ret.op = "checkForUpdate"
  /\ ~ret.val
  /\ ret.env.doc.url = Absent
  /\ ret.env.doc.version = Present(V_2)
  /\ lastError = INVALID_VERSION
  /\ ret.steps[Len(ret.steps)] = "fields"

\* C11 (as claimed): after a checkForUpdate() that fails with an error other
\* than NO_UPDATE_AVAILABLE the three getters are all empty.
Inv_C11_FailedCheckLeavesFieldsEmpty ==
  (ret.op = "checkForUpdate" /\ ~ret.val /\ lastError # NO_UPDATE_AVAILABLE) =>
    /\ remoteVersion = EmptyStr
    /\ firmwareUrl = EmptyStr
    /\ releaseNotes = EmptyStr

\* C12: checkForUpdate() is idempotent: a second call right after a first one,
\* against the same manifest and the same transport answers, returns the same
\* value and leaves the same lastError, remoteVersion, firmwareUrl and
\* releaseNotes as the first, whatever state the first one began in.
Prop_C12_CheckIdempotent ==
  [][ (ret'.op = "checkForUpdate" /\ ret'.again) =>
        /\ ret'.val = ret.out.val
        /\ lastError' = ret.out.lastError
        /\ remoteVersion' = ret.out.remoteVersion
        /\ firmwareUrl' = ret.out.firmwareUrl
        /\ releaseNotes' = ret.out.releaseNotes ]_vars

\* a second check in a row against the same newer manifest has returned true
Witness_C12 ==
  /\ ret.op = "checkForUpdate"
  /\ ret.again
  /\ ret.val
  /\ remoteVersion = V_1_0_1
  /\ lastError = NO_ERROR

\* the sign of an integer
Sign(x) == IF x > 0 THEN 1 ELSE IF x < 0 THEN 0 - 1 ELSE 0

\* the sign of the lexicographic comparison of two triples
LexSign(a, b) == IF LexGreater(a, b) THEN 1 ELSE IF LexGreater(b, a) THEN 0 - 1 ELSE 0

\* C13 (as claimed): the sign of cmpVersion(a, b) is the sign of the
\* lexicographic comparison of the two parsed triples (here the triples as
\* the code parses them), so cmp(x, x) is 0, cmp(a, b) and cmp(b, a) have
\* opposite signs, and "" and "abc" compare as 0.0.0.
Inv_C13_CmpSignIsLexSign ==
  cmpResult.called =>
    /\ Sign(cmpResult.ab) = LexSign(cmpResult.ta, cmpResult.tb)
    /\ cmpResult.a = cmpResult.b => cmpResult.ab = 0
    /\ Sign(cmpResult.ab) = 0 - Sign(cmpResult.ba)
    /\ cmpResult.a \in { EmptyStr, V_abc } =>
         Sign(cmpResult.ab) = LexSign(<<0, 0, 0>>, cmpResult.tb)

\* the answers the last check got let it return true
CheckPasses ==
  /\ SchemeAllowed /\ Opened /\ StatusOk /\ Parsed
  /\ FieldsPresent /\ FormatOk /\ Newer

\* C14: performUpdate() calls the installer only when its check returned
\* true, and with the manifest's url; when the check fails it returns false
\* with the check's error, no firmware connection opened, no flash transaction
\* begun, isUpdating false and the progress zero as before.  The second part
\* is stated of a performUpdate() called by the application (Plain).
Inv_C14_PerformUpdateDelegates ==
  /\ (hist.caller = "performUpdate" /\ pc = "loop_guard" /\ hist.attempts = 0) =>
       /\ CheckPasses
       /\ url = Member(ret.env.doc.url)
       /\ firmwareUrl = url
  /\ (Plain /\ ret.op = "performUpdate") =>
       /\ pc = "idle"
       /\ ~ret.val
       /\ ~CheckPasses
       /\ lastError = FirstFailure[2]
       /\ ~httpOpen
       /\ ~updOpen
       /\ ~isUpdating
       /\ ProgressZero

\* the installer, called by performUpdate() after a check that found 1.0.1,
\* copies from the manifest's url
Witness_C14 ==
  /\ Plain
  /\ hist.caller = "performUpdate"
  /\ pc = "copy_chunk"
  /\ remoteVersion = V_1_0_1
  /\ url = HttpUrl
  /\ httpOpen
  /\ updOpen

\* C15: a known-size attempt whose stream ends before the expected bytes are
\* read records DOWNLOAD_FAILED, aborts its transaction and uses up one
\* attempt of the budget; the attempt that follows opens a new connection,
\* begins a new transaction and starts from bytesRead 0 and percent 0,
\* counting only its own bytes.  Stated of an installer invocation that runs
\* as the only one (Plain).
Inv_C15_IncompleteDownloadRetried ==
  /\ (Plain /\ pc = "loop_guard" /\ hasContentLength /\ updateStarted
        /\ totalRead # contentLength) => lastError = DOWNLOAD_FAILED
  /\ (Plain /\ pc = "loop_guard" /\ lastError = DOWNLOAD_FAILED /\ ~success) =>
       /\ hasContentLength
       /\ totalRead # contentLength
       /\ hist.aborts = 1
       /\ ~hist.endOk
       /\ ~updOpen
       /\ ~httpOpen
       /\ ProgressZero
       /\ retryAttempt = hist.attempts
  /\ (Plain /\ lastError = DOWNLOAD_FAILED /\ hist.attempts >= 2) =>
       /\ ~hist.leak
       /\ ~hist.connLeak
       /\ pc = "update_begin" =>
            /\ httpOpen /\ ~updOpen
            /\ currentBytesRead = 0 /\ currentPercent = 0 /\ totalRead = 0
       /\ pc \in {"first_report", "copy_guard", "copy_chunk", "chunk_report"} =>
            /\ httpOpen /\ updOpen
            /\ currentBytesRead = totalRead
            /\ totalRead > 0 \/ currentPercent = 0

\* the attempt after an incomplete download has copied its first 1024 bytes
\* of 2048 and shows them, and only them, in the progress
Witness_C15 ==
  /\ Plain
  /\ lastError = DOWNLOAD_FAILED
  /\ hist.attempts = 2
  /\ pc = "copy_guard"
  /\ contentLength = 2048
  /\ totalRead = 1024
  /\ currentBytesRead = 1024
  /\ currentPercent = 50

\* C16 (as claimed): in a known-size attempt whose writes are all accepted the
\* successive progress snapshots never show fewer bytes or a lower percent
\* than before, the percent stays within 0..100, and when all N bytes are
\* read the snapshot shows N bytes and 100 percent.
Inv_C16_ProgressMonotone ==
  (hasContentLength /\ updateStarted /\ ~hist.shortWrite) =>
    /\ ~hist.wentBack
    /\ currentPercent \in 0..100
    /\ (pc \in {"final_report", "abort_check"} /\ totalRead = contentLength) =>
         (currentBytesRead = contentLength /\ currentPercent = 100)

\* C17 (as claimed): whenever isUpdating is false no flash transaction is
\* open, also in the attempts that follow a failed one.  Stated of an
\* installer invocation that runs as the only one (Plain).
Inv_C17_NoTransactionUnlessUpdating == (Plain /\ ~isUpdating) => ~updOpen

\* C18 (as claimed): a stream read that returns zero or less ends the copy
\* loop and the attempt is treated as an incomplete download: its transaction
\* is aborted, never finalized, and the attempt does not succeed, with a known
\* and with an unknown content length.  Stated of an installer invocation
\* that runs as the only one (Plain).
Inv_C18_ReadErrorFailsAttempt ==
  (Plain /\ hist.readError) =>
    /\ ~hist.endOk
    /\ ~success
    /\ pc # "restarted"
    /\ pc = "loop_guard" => (lastError = DOWNLOAD_FAILED /\ hist.aborts = 1)

\* the begin loop of the current attempt gave up: the attempt is over, begin
\* was called and never succeeded
BeginGaveUp ==
  pc = "loop_guard" /\ hist.attempts > 0 /\ hist.beginCalls > 0 /\ ~updateStarted

\* C19: in an attempt that reaches flash initialization Update.begin() is
\* called at most 5 times and not again after its first success; when all 5
\* calls fail the attempt records UpdateSizeError, has released the connection,
\* has issued no write, end or abort to the flash writer, has used one unit of
\* the retry budget, and control is back at the guard of the retry loop.
\* Stated of an installer invocation that runs as the only one (Plain).
Inv_C19_BeginAtMostFiveTimes ==
  /\ hist.beginCalls <= 5
  /\ Plain => (updateStarted => pc # "update_begin")
  /\ (Plain /\ pc = "update_begin" /\ hist.beginCalls > 0) => ~updOpen
  /\ (Plain /\ BeginGaveUp) =>
       /\ hist.beginCalls = 5
       /\ lastError = UPDATE_SIZE_ERROR
       /\ ~httpOpen
       /\ ~updOpen
       /\ totalRead = 0
       /\ hist.aborts = 0
       /\ ~hist.endOk
       /\ ~hist.misuse
       /\ ~success
       /\ retryAttempt = hist.attempts

\* all five calls failed and the retry loop is about to start the next attempt
Witness_C19 ==
  /\ Plain
  /\ BeginGaveUp
  /\ hist.beginCalls = 5
  /\ LoopCondition(retryAttempt, retryCount, success, abortFlag)

\* the arguments of the initial report of an attempt
ZeroReport == << 0, 0, IF hasContentLength THEN contentLength ELSE 0 >>

\* C20 (as claimed): the report progress(0, expectedSizeOrZero) is made before
\* the flash transaction is initialized, so it has been made once Update.begin()
\* has been called, whether or not that call succeeded.  Stated of an
\* installer invocation that runs as the only one (Plain).
Inv_C20_ZeroReportBeforeBegin_Claimed ==
  (Plain /\ pc \in {"update_begin", "loop_guard"} /\ hist.attempts > 0
     /\ hist.beginCalls > 0)
    => hist.firstReport # << >>

\* C20 (amended): in an attempt whose GET succeeded the report
\* progress(0, expectedSizeOrZero) is made once Update.begin() has succeeded and
\* before the first chunk is read; it has not been made while Update.begin()
\* is still being tried, and it is not made at all when flash initialization
\* fails.  Stated of an installer invocation that runs as the only one (Plain).
Inv_C20_ZeroReportAfterBegin ==
  Plain =>
    /\ updateStarted => hist.firstReport = ZeroReport
    /\ pc = "update_begin" => hist.firstReport = << >>
    /\ BeginGaveUp => hist.firstReport = << >>

\* a transaction was initialized for a body of known length and the initial
\* report has been made, no chunk read yet
Witness_C20 ==
  /\ Plain
  /\ pc = "first_report"
  /\ updateStarted
  /\ hasContentLength
  /\ totalRead = 0
  /\ hist.firstReport = << 0, 0, contentLength >>

\* C21: every connection the checker or an installer attempt opens is
\* released before the operation returns, before the next attempt opens one
\* and before the restart is requested, on every exit path; at most one
\* connection is open at any time.  The checker's part holds of every check:
\* its HTTPClient holds no connection once the check has returned, and the
\* check released as many connections as it opened.  The installer's part
\* and the count of open connections are stated of operations the
\* application calls one at a time, none from a callback of the installer
\* (Undisturbed).
Inv_C21_ConnectionReleased ==
  /\ chk = "none" => ~chkOpen
  /\ ret.op \in {"checkForUpdate", "performUpdate"} =>
       (ret.opened <= 1 /\ ret.released = ret.opened)
  /\ Undisturbed =>
       /\ pc \in {"idle", "restarted", "loop_guard", "http_begin"} => ~httpOpen
       /\ ~hist.connLeak
       /\ ~(httpOpen /\ chkOpen)

\* performUpdate(): the check got its manifest over a connection and released
\* it before the installer began; the second attempt of the installer holds
\* its own connection after the first attempt, which failed at finalization,
\* released the one it had
Witness_C21 ==
  /\ Undisturbed
  /\ hist.caller = "performUpdate"
  /\ ret.env.beginOk
  /\ ret.env.httpCode = HTTP_CODE_OK
  /\ ~chkOpen
  /\ pc = "http_get"
  /\ httpOpen
  /\ hist.attempts = 2
  /\ lastError = FLASH_FAILED

\* C22 (as claimed): with every transport and flash call returning, an
\* installer invocation that has begun eventually ends, by returning false or
\* by requesting the restart, for every retry count 0..255 and every pattern
\* of failing attempts.
Live_C22_InstallerTerminates ==
  (pc \notin {"idle", "restarted"}) ~> (pc \in {"idle", "restarted"})

\* C23 (as claimed): when the installer succeeds and requests the restart,
\* lastError is NO_ERROR and the error detail is empty, however many earlier
\* attempts of the same invocation failed.  Stated of an installer invocation
\* from whose callbacks no operation has been called (Undisturbed).
Inv_C23_SuccessLeavesNoError ==
  (Undisturbed /\ pc = "restarted") =>
    (lastError = NO_ERROR /\ lastErrorDetail = "")

\* the progress snapshot can be read: a progress or responsiveness callback
\* runs (lines 396, 446-450, 470), or the installer has returned
SnapshotObservable == pc \in CallbackPcs \cup { "idle" }

\* C24 (as claimed): wherever the progress snapshot can be observed, a percent
\* of 100 with a known total means that bytesRead equals the total; 100 % is
\* never shown for a known-size download that has not delivered all its bytes.
\* Stated of an installer invocation that runs as the only one (Plain).
Inv_C24_FullPercentMeansAllBytes ==
  (Plain /\ SnapshotObservable /\ currentPercent = 100 /\ totalBytes > 0)
    => currentBytesRead = totalBytes

\* C25: an abortUpdate() made while no operation runs does not carry over into
\* the next install: while the installer runs, the abort flag is set exactly
\* when abortUpdate() was called since the installer started (and since the
\* last checkForUpdate() begun from one of its callbacks, which clears the
\* flag as well), and an installer that ends with UPDATE_ABORTED was asked to
\* abort while it ran.
Inv_C25_IdleAbortDoesNotCarryOver ==
  /\ pc \notin {"idle", "restarted"} => (abortFlag <=> hist.abortRequested)
  /\ (InstallerReturnedFalse /\ lastError = UPDATE_ABORTED) => hist.abortRequested
  /\ (pc = "restarted" /\ ~hist.abortRequested) => ~abortFlag

\* an install called with the abort flag still set from an earlier
\* abortUpdate() has begun its flash transaction and makes its first report
\* with the flag clear
Witness_C25 ==
  /\ hist.staleAbort
  /\ ~hist.abortRequested
  /\ ~abortFlag
  /\ pc = "first_report"
  /\ updOpen

====
